---- MODULE Spec2Model ----
(***************************************************************************)
(* FlexIO center-aligned PWM demo for the MCX N947                         *)
(* (source/frdmmcxn947_flexio_state_mode_center_aligned_pwm.c).            *)
(*                                                                         *)
(* The module models the three static routines of the file                 *)
(*   flexio_pwm_init, FLEXIO_SetPwmOutputToIdle, PWM_GetPwmOutputState     *)
(* over the FlexIO registers they touch (TIMCMP[], TIMCTL[], PIN) and the  *)
(* duty cycle cache s_flexioGetPwmDutyCycle[], and the program's main.     *)
(*                                                                         *)
(* Spec     : a caller that invokes the three routines in any order with   *)
(*            any arguments of the input sets below.  Every routine is     *)
(*            executed statement group by statement group (pc), because    *)
(*            the order of its register writes is part of what is checked. *)
(* SpecMain : main() as written in the file.                               *)
(***************************************************************************)
EXTENDS Integers, Naturals, FiniteSets, Sequences, TLC

VARIABLES
    assertEnabled,             \* build: TRUE when assert() is compiled in (no NDEBUG)
    clockFreq,                 \* value returned by CLOCK_GetFlexioClkFreq()
    TIMCMP,                    \* FLEXIO0->TIMCMP[0..7]
    TIMCTL,                    \* FLEXIO0->TIMCTL[0..7], as the fields this file sets
    PIN,                       \* FLEXIO0->PIN, the pin input levels
    s_flexioGetPwmDutyCycle,   \* the duty cycle cache (uint8_t[8])
    pc,                        \* position of the running routine
    args,                      \* arguments of the running call
    fxioTimerConfig,           \* the local flexio_timer_config_t being composed
    ret,                       \* value returned by the last finished call
    programmed                 \* history: per channel, the last call that completed on it

vars == <<assertEnabled, clockFreq, TIMCMP, TIMCTL, PIN, s_flexioGetPwmDutyCycle,
          pc, args, fxioTimerConfig, ret, programmed>>

regs == <<TIMCMP, TIMCTL, s_flexioGetPwmDutyCycle>>

(***************************************************************************)
(* Program constants.                                                      *)
(***************************************************************************)
DEMO_FLEXIO_OUTPUTPIN == 0
DEMO_FLEXIO_TIMER_CH == 0
DEMO_FLEXIO_FREQUENCY == 100000
FLEXIO_TIMER_CHANNELS == 8

\* Bit position of PINPOL in TIMCTL (FLEXIO_TIMCTL_PINPOL_MASK = 1 << 7 in the
\* device header; the header is not part of the source file).
FLEXIO_TIMCTL_PINPOL_SHIFT == 7

\* flexio_pin_polarity_t (the value of the PINPOL bit) and flexio_timer_mode_t,
\* as used by the file.
kFLEXIO_PinActiveHigh == 0
kFLEXIO_PinActiveLow == 1
kFLEXIO_TimerModeDisabled == "kFLEXIO_TimerModeDisabled"
kFLEXIO_TimerModeDual8BitPWM == "kFLEXIO_TimerModeDual8BitPWM"

(***************************************************************************)
(* Bounds and input sets of the model.                                     *)
(***************************************************************************)
\* FLEXIO_SetPwmOutputToIdle and PWM_GetPwmOutputState are called on timer
\* channels 0..MaxTimerChannel (of the 8 the arrays hold).
MaxTimerChannel == 1
\* Duties 101..100+MaxDutyOver are the out-of-range duties tried (and 356,
\* which is 100 modulo 256).
MaxDutyOver == 1

Uint16 == 2 ^ 16
Uint8 == 2 ^ 8

TimerChannels == 0..(FLEXIO_TIMER_CHANNELS - 1)
TimerChannelInputs == 0..MaxTimerChannel
\* Pins probed and driven by the environment: the PWM output pin and the
\* pin whose PIN bit has the position of PINPOL.
PinChannels == {DEMO_FLEXIO_OUTPUTPIN, FLEXIO_TIMCTL_PINPOL_SHIFT}
\* Clock frequencies CLOCK_GetFlexioClkFreq() may return: FRO HF 48 MHz
\* divided by 10, by 9 (odd, not a multiple of 512) and by 4 (main's divider).
ClockFreqs == {4800000, 5333333, 12000000}
DutyInputs == {0, 1, 50, 99, 100} \cup (101..(100 + MaxDutyOver)) \cup {356}

(***************************************************************************)
(* C integer arithmetic.  A uint32_t that can wrap is kept as its two      *)
(* 16-bit halves [hi, lo] (value hi * 2^16 + lo); W32(n) is the uint32_t   *)
(* that the integer n is congruent to modulo 2^32.                         *)
(***************************************************************************)
RECURSIVE BitAnd(_, _)
BitAnd(a, b) ==
    IF a = 0 \/ b = 0 THEN 0
    ELSE ((a % 2) * (b % 2)) + 2 * BitAnd(a \div 2, b \div 2)

RECURSIVE BitOr(_, _)
BitOr(a, b) ==
    IF a = 0 THEN b
    ELSE IF b = 0 THEN a
    ELSE (IF (a % 2) + (b % 2) > 0 THEN 1 ELSE 0) + 2 * BitOr(a \div 2, b \div 2)

RECURSIVE BitXor(_, _)
BitXor(a, b) ==
    IF a = 0 THEN b
    ELSE IF b = 0 THEN a
    ELSE ((a + b) % 2) + 2 * BitXor(a \div 2, b \div 2)

W32(n) == [hi |-> (n \div Uint16) % Uint16, lo |-> n % Uint16]

\* w << 8U
Shl8W(w) == [hi |-> ((w.hi * Uint8) + (w.lo \div Uint8)) % Uint16,
             lo |-> (w.lo * Uint8) % Uint16]

\* w >> 8U
Shr8W(w) == [hi |-> w.hi \div Uint8,
             lo |-> ((w.hi % Uint8) * Uint8) + (w.lo \div Uint8)]

BitOrW(v, w) == [hi |-> BitOr(v.hi, w.hi), lo |-> BitOr(v.lo, w.lo)]

(***************************************************************************)
(* The frequency precondition of flexio_pwm_init (the two macros and the   *)
(* assert expression).                                                     *)
(***************************************************************************)
FLEXIO_MAX_FREQUENCY(clk) == clk \div 2
FLEXIO_MIN_FREQUENCY(clk) == clk \div 512

\* Mutation: the bounds taken inclusive, as the prototype's comment words them.
FreqInRange_inclusive(clk, freq_Hz) ==
    (freq_Hz <= FLEXIO_MAX_FREQUENCY(clk)) /\ (freq_Hz >= FLEXIO_MIN_FREQUENCY(clk))

FreqInRange(clk, freq_Hz) ==
    (freq_Hz < FLEXIO_MAX_FREQUENCY(clk)) /\ (freq_Hz > FLEXIO_MIN_FREQUENCY(clk))

\* Frequencies tried for a clock: 0, both bounds, their inner neighbours, the
\* demo frequency, and one with clk / f = 2.5.
FreqInputs(clk) ==
    {0, FLEXIO_MIN_FREQUENCY(clk), FLEXIO_MIN_FREQUENCY(clk) + 1,
     DEMO_FLEXIO_FREQUENCY, (clk * 2) \div 5,
     FLEXIO_MAX_FREQUENCY(clk) - 1, FLEXIO_MAX_FREQUENCY(clk)}

(***************************************************************************)
(* The arithmetic of flexio_pwm_init.  sum and lowerValue stay far below   *)
(* 2^31 for every clock and input of the model (clock * 2 < 2^25,          *)
(* sum * duty < 2^18), so only upperValue, which can wrap below zero, and  *)
(* what is built from it are kept as uint32_t halves.                      *)
(***************************************************************************)
\* quot2 is DEMO_FLEXIO_CLOCK_FREQUENCY * 2 / freq_Hz.
SumOfQuotient(quot2) == (quot2 + 1) \div 2

sum(clk, freq_Hz) == SumOfQuotient((clk * 2) \div freq_Hz)

\* Mutation: the duty product rounded to nearest instead of truncated.
lowerValue_rounded(s, duty) == ((s * duty) + 50) \div 100

lowerValue(s, duty) == (s * duty) \div 100

upperValue(s, lv) == W32(s - lv - 2)

timerCompare(uv, lv) == BitOrW(Shl8W(uv), W32(lv))

(***************************************************************************)
(* Mode selection of flexio_pwm_init by duty.                              *)
(***************************************************************************)
\* Mutation: "else if (duty >= 100)".
DutyBranch_ge100(duty) ==
    IF (duty > 0) /\ (duty < 100) THEN "pwm"
    ELSE IF duty >= 100 THEN "full"
    ELSE IF duty = 0 THEN "zero"
    ELSE "fail"

DutyBranch(duty) ==
    IF (duty > 0) /\ (duty < 100) THEN "pwm"
    ELSE IF duty = 100 THEN "full"
    ELSE IF duty = 0 THEN "zero"
    ELSE "fail"

PwmTimerMode(duty) ==
    IF DutyBranch(duty) = "pwm" THEN kFLEXIO_TimerModeDual8BitPWM
    ELSE kFLEXIO_TimerModeDisabled

\* Mutation: the two constant levels exchanged.
PwmPinPolarity_swapped(duty) ==
    IF DutyBranch(duty) = "zero" THEN kFLEXIO_PinActiveLow ELSE kFLEXIO_PinActiveHigh

PwmPinPolarity(duty) ==
    IF DutyBranch(duty) = "full" THEN kFLEXIO_PinActiveLow ELSE kFLEXIO_PinActiveHigh

\* The fxioTimerConfig flexio_pwm_init has composed when it reaches the duty
\* branches' end, from the period s.
PwmConfig(s, duty) ==
    [timerMode    |-> PwmTimerMode(duty),
     pinPolarity  |-> PwmPinPolarity(duty),
     timerCompare |-> timerCompare(upperValue(s, lowerValue(s, duty)), lowerValue(s, duty))]

(***************************************************************************)
(* FLEXIO_SetTimerConfig of the SDK driver (fsl_flexio.c, not in the       *)
(* source file): writes the 16-bit CMP field of TIMCMP[index] and the      *)
(* mode and pin polarity fields of TIMCTL[index] from the configuration.   *)
(* The other TIMCTL and TIMCFG fields get the same constants from both     *)
(* callers and are left out.                                               *)
(***************************************************************************)
FLEXIO_SetTimerConfig(index, timerConfig) ==
    /\ TIMCMP' = [TIMCMP EXCEPT ![index] = timerConfig.timerCompare.lo]
    /\ TIMCTL' = [TIMCTL EXCEPT ![index] = [timerMode   |-> timerConfig.timerMode,
                                            pinPolarity |-> timerConfig.pinPolarity]]

(***************************************************************************)
(* State between calls.                                                    *)
(***************************************************************************)
NoArgs == [op |-> "none", freq_Hz |-> 0, duty |-> 0,
           timerChannel |-> 0, idleStatus |-> FALSE, channel |-> 0]

NoConfig == [timerMode    |-> kFLEXIO_TimerModeDisabled,
             pinPolarity  |-> kFLEXIO_PinActiveHigh,
             timerCompare |-> W32(0)]

NotProgrammed == [by |-> "reset", freq_Hz |-> 0, duty |-> 0]

ResetRegisters ==
    /\ TIMCMP = [ch \in TimerChannels |-> 0]
    /\ TIMCTL = [ch \in TimerChannels |-> [timerMode   |-> kFLEXIO_TimerModeDisabled,
                                           pinPolarity |-> kFLEXIO_PinActiveHigh]]
    /\ s_flexioGetPwmDutyCycle = [ch \in TimerChannels |-> 0]
    /\ programmed = [ch \in TimerChannels |-> NotProgrammed]
    /\ args = NoArgs
    /\ fxioTimerConfig = NoConfig
    /\ ret = "none"

Init ==
    /\ assertEnabled \in BOOLEAN
    /\ clockFreq \in ClockFreqs
    /\ PIN = 0
    /\ ResetRegisters
    /\ pc = "ready"

(***************************************************************************)
(* The environment: an input pin changes level (FLEXIO0->PIN follows it).  *)
(* Only PWM_GetPwmOutputState reads PIN, so a change during one of the     *)
(* other two routines is the same as one right after it, and only the      *)
(* latter is generated.                                                    *)
(***************************************************************************)
WritingRoutinePcs == {"pwm_assert", "pwm_compose", "pwm_write", "pwm_cache",
                      "idle_clear", "idle_write", "idle_cache"}

PinChange ==
    /\ pc \notin WritingRoutinePcs
    /\ \E p \in PinChannels : PIN' = BitXor(PIN, 2 ^ p)
    /\ UNCHANGED <<assertEnabled, clockFreq, TIMCMP, TIMCTL, s_flexioGetPwmDutyCycle,
                   pc, args, fxioTimerConfig, ret, programmed>>

(***************************************************************************)
(* flexio_pwm_init(freq_Hz, duty)                                          *)
(***************************************************************************)
Call_flexio_pwm_init ==
    /\ pc = "ready"
    /\ \E f \in FreqInputs(clockFreq), d \in DutyInputs :
          args' = [NoArgs EXCEPT !.op = "flexio_pwm_init", !.freq_Hz = f, !.duty = d]
    /\ pc' = "pwm_assert"
    /\ UNCHANGED <<assertEnabled, clockFreq, TIMCMP, TIMCTL, PIN,
                   s_flexioGetPwmDutyCycle, fxioTimerConfig, ret, programmed>>

\* The assert of the first line: abort when compiled in and false.
pwm_Assert ==
    /\ pc = "pwm_assert"
    /\ pc' = IF assertEnabled /\ ~FreqInRange(clockFreq, args.freq_Hz)
             THEN "assert_halt" ELSE "pwm_compose"
    /\ UNCHANGED <<assertEnabled, clockFreq, TIMCMP, TIMCTL, PIN,
                   s_flexioGetPwmDutyCycle, args, fxioTimerConfig, ret, programmed>>

\* From the locals' declarations to the end of the duty branches, with the
\* period s: either "return kStatus_Fail" or a composed fxioTimerConfig.
pwm_ComposeWith(s) ==
    /\ fxioTimerConfig' = PwmConfig(s, args.duty)
    /\ IF DutyBranch(args.duty) = "fail"
       THEN ret' = "kStatus_Fail" /\ pc' = "returned"
       ELSE ret' = ret /\ pc' = "pwm_write"
    /\ UNCHANGED args

pwm_Compose ==
    /\ pc = "pwm_compose"
    /\ args.freq_Hz /= 0
    /\ pwm_ComposeWith(sum(clockFreq, args.freq_Hz))
    /\ UNCHANGED <<assertEnabled, clockFreq, TIMCMP, TIMCTL, PIN,
                   s_flexioGetPwmDutyCycle, programmed>>

\* freq_Hz = 0 reaches the division only without the assert: the division by
\* zero is undefined.  On this core UDIV yields 0, or traps when DIV_0_TRP is
\* set.
pwm_DivideByZero ==
    /\ pc = "pwm_compose"
    /\ args.freq_Hz = 0
    /\ \/ /\ pc' = "fault_halt"
          /\ UNCHANGED <<args, fxioTimerConfig, ret>>
       \/ pwm_ComposeWith(SumOfQuotient(0))
    /\ UNCHANGED <<assertEnabled, clockFreq, TIMCMP, TIMCTL, PIN,
                   s_flexioGetPwmDutyCycle, programmed>>

\* FLEXIO_SetTimerConfig(DEMO_FLEXIO_BASEADDR, DEMO_FLEXIO_TIMER_CH, &fxioTimerConfig)
pwm_SetTimerConfig ==
    /\ pc = "pwm_write"
    /\ FLEXIO_SetTimerConfig(DEMO_FLEXIO_TIMER_CH, fxioTimerConfig)
    /\ pc' = "pwm_cache"
    /\ UNCHANGED <<assertEnabled, clockFreq, PIN, s_flexioGetPwmDutyCycle,
                   args, fxioTimerConfig, ret, programmed>>

\* Mutation: the duty stored in the entry after the channel's own.
pwm_CacheIndex_next == DEMO_FLEXIO_TIMER_CH + 1

pwm_CacheIndex == DEMO_FLEXIO_TIMER_CH

\* s_flexioGetPwmDutyCycle[DEMO_FLEXIO_TIMER_CH] = duty; return kStatus_Success;
pwm_CacheAndReturn ==
    /\ pc = "pwm_cache"
    /\ s_flexioGetPwmDutyCycle' =
          [s_flexioGetPwmDutyCycle EXCEPT ![pwm_CacheIndex] = args.duty % Uint8]
    /\ programmed' = [programmed EXCEPT ![DEMO_FLEXIO_TIMER_CH] =
          [by |-> "flexio_pwm_init", freq_Hz |-> args.freq_Hz, duty |-> args.duty]]
    /\ ret' = "kStatus_Success"
    /\ pc' = "returned"
    /\ UNCHANGED <<assertEnabled, clockFreq, TIMCMP, TIMCTL, PIN, args, fxioTimerConfig>>

(***************************************************************************)
(* FLEXIO_SetPwmOutputToIdle(base, timerChannel, idleStatus)               *)
(***************************************************************************)
Call_FLEXIO_SetPwmOutputToIdle ==
    /\ pc = "ready"
    /\ \E ch \in TimerChannelInputs, st \in BOOLEAN :
          args' = [NoArgs EXCEPT !.op = "FLEXIO_SetPwmOutputToIdle",
                                 !.timerChannel = ch, !.idleStatus = st]
    /\ pc' = "idle_clear"
    /\ UNCHANGED <<assertEnabled, clockFreq, TIMCMP, TIMCTL, PIN,
                   s_flexioGetPwmDutyCycle, fxioTimerConfig, ret, programmed>>

\* Mutation: the early clear of TIMCMP left out.
idle_ClearedTIMCMP_skipped(timerChannel) == TIMCMP

\* base->TIMCMP[timerChannel] = 0;
idle_ClearedTIMCMP(timerChannel) == [TIMCMP EXCEPT ![timerChannel] = 0]

\* The configuration's constant fields (timerMode disabled, timerCompare 0),
\* then the clear of TIMCMP.
idle_ClearCompare ==
    /\ pc = "idle_clear"
    /\ fxioTimerConfig' = [NoConfig EXCEPT !.timerMode = kFLEXIO_TimerModeDisabled,
                                           !.timerCompare = W32(0)]
    /\ TIMCMP' = idle_ClearedTIMCMP(args.timerChannel)
    /\ pc' = "idle_write"
    /\ UNCHANGED <<assertEnabled, clockFreq, TIMCTL, PIN, s_flexioGetPwmDutyCycle,
                   args, ret, programmed>>

IdlePinPolarity(idleStatus) ==
    IF idleStatus THEN kFLEXIO_PinActiveLow ELSE kFLEXIO_PinActiveHigh

\* The polarity by idleStatus, then
\* FLEXIO_SetTimerConfig(DEMO_FLEXIO_BASEADDR, timerChannel, &fxioTimerConfig)
idle_SetTimerConfig ==
    /\ pc = "idle_write"
    /\ fxioTimerConfig' =
          [fxioTimerConfig EXCEPT !.pinPolarity = IdlePinPolarity(args.idleStatus)]
    /\ FLEXIO_SetTimerConfig(args.timerChannel, fxioTimerConfig')
    /\ pc' = "idle_cache"
    /\ UNCHANGED <<assertEnabled, clockFreq, PIN, s_flexioGetPwmDutyCycle,
                   args, ret, programmed>>

idle_CacheValue(timerChannel) == 0

\* s_flexioGetPwmDutyCycle[timerChannel] = 0;
idle_CacheAndReturn ==
    /\ pc = "idle_cache"
    /\ s_flexioGetPwmDutyCycle' = [s_flexioGetPwmDutyCycle EXCEPT
          ![args.timerChannel] = idle_CacheValue(args.timerChannel)]
    /\ programmed' = [programmed EXCEPT ![args.timerChannel] =
          [by |-> "FLEXIO_SetPwmOutputToIdle", freq_Hz |-> 0, duty |-> 0]]
    /\ ret' = "void"
    /\ pc' = "returned"
    /\ UNCHANGED <<assertEnabled, clockFreq, TIMCMP, TIMCTL, PIN, args, fxioTimerConfig>>

(***************************************************************************)
(* PWM_GetPwmOutputState(base, timerChannel, channel)                      *)
(***************************************************************************)
\* (base->PIN & (1U << channel)) ^ (base->TIMCTL[timerChannel] & FLEXIO_TIMCTL_PINPOL_MASK)
PinXorPolarity(pin, timctl, channel) ==
    BitXor(BitAnd(pin, 2 ^ channel),
           timctl.pinPolarity * (2 ^ FLEXIO_TIMCTL_PINPOL_SHIFT))

PWM_GetPwmOutputState(pin, timctl, channel) ==
    IF PinXorPolarity(pin, timctl, channel) /= 0
    THEN "kFLEXIO_PwmHigh" ELSE "kFLEXIO_PwmLow"

Call_PWM_GetPwmOutputState ==
    /\ pc = "ready"
    /\ \E tch \in TimerChannelInputs, ch \in PinChannels :
          args' = [NoArgs EXCEPT !.op = "PWM_GetPwmOutputState",
                                 !.timerChannel = tch, !.channel = ch]
    /\ pc' = "probe"
    /\ UNCHANGED <<assertEnabled, clockFreq, TIMCMP, TIMCTL, PIN,
                   s_flexioGetPwmDutyCycle, fxioTimerConfig, ret, programmed>>

probe_Return ==
    /\ pc = "probe"
    /\ ret' = PWM_GetPwmOutputState(PIN, TIMCTL[args.timerChannel], args.channel)
    /\ pc' = "returned"
    /\ UNCHANGED <<assertEnabled, clockFreq, TIMCMP, TIMCTL, PIN,
                   s_flexioGetPwmDutyCycle, args, fxioTimerConfig, programmed>>

(***************************************************************************)
(* The three routines under any caller.                                    *)
(***************************************************************************)
\* The caller takes the returned value; the callee's arguments and locals end.
Caller_Resume ==
    /\ pc = "returned"
    /\ pc' = "ready"
    /\ args' = NoArgs
    /\ fxioTimerConfig' = NoConfig
    /\ ret' = "none"
    /\ UNCHANGED <<assertEnabled, clockFreq, TIMCMP, TIMCTL, PIN,
                   s_flexioGetPwmDutyCycle, programmed>>

Next ==
    \/ PinChange
    \/ Caller_Resume
    \/ Call_flexio_pwm_init
    \/ pwm_Assert
    \/ pwm_Compose
    \/ pwm_DivideByZero
    \/ pwm_SetTimerConfig
    \/ pwm_CacheAndReturn
    \/ Call_FLEXIO_SetPwmOutputToIdle
    \/ idle_ClearCompare
    \/ idle_SetTimerConfig
    \/ idle_CacheAndReturn
    \/ Call_PWM_GetPwmOutputState
    \/ probe_Return

Spec == Init /\ [][Next]_vars

(***************************************************************************)
(* main()                                                                  *)
(***************************************************************************)
MainInit ==
    /\ assertEnabled \in BOOLEAN
    /\ clockFreq = 0
    /\ PIN = 0
    /\ ResetRegisters
    /\ pc = "main_uart_clock"

MainUnchanged ==
    UNCHANGED <<assertEnabled, TIMCMP, TIMCTL, PIN, s_flexioGetPwmDutyCycle,
                args, fxioTimerConfig, ret, programmed>>

\* CLOCK_SetClkDiv(kCLOCK_DivFlexcom4Clk, 1u); CLOCK_AttachClk(BOARD_DEBUG_UART_CLK_ATTACH);
main_AttachDebugUartClock ==
    /\ pc = "main_uart_clock"
    /\ pc' = "main_flexio_clock"
    /\ UNCHANGED clockFreq
    /\ MainUnchanged

\* CLOCK_SetClkDiv(kCLOCK_DivFlexioClk, 4u); CLOCK_AttachClk(kFRO_HF_to_FLEXIO);
\* the resulting frequency is the clock tree's.
main_AttachFlexioClock ==
    /\ pc = "main_flexio_clock"
    /\ clockFreq' \in ClockFreqs
    /\ pc' = "main_init_pins"
    /\ MainUnchanged

main_BOARD_InitPins ==
    /\ pc = "main_init_pins"
    /\ pc' = "main_init_clocks"
    /\ UNCHANGED clockFreq
    /\ MainUnchanged

\* BOARD_InitBootClocks() sets up the clock tree (clock_config.c).
main_BOARD_InitBootClocks ==
    /\ pc = "main_init_clocks"
    /\ clockFreq' \in ClockFreqs
    /\ pc' = "main_init_console"
    /\ MainUnchanged

main_BOARD_InitDebugConsole ==
    /\ pc = "main_init_console"
    /\ pc' = "main_init_peripherals"
    /\ UNCHANGED clockFreq
    /\ MainUnchanged

main_BOARD_InitBootPeripherals ==
    /\ pc = "main_init_peripherals"
    /\ pc' = "main_loop"
    /\ UNCHANGED clockFreq
    /\ MainUnchanged

\* while(1) { }
main_Loop ==
    /\ pc = "main_loop"
    /\ UNCHANGED vars

MainNext ==
    \/ PinChange
    \/ main_AttachDebugUartClock
    \/ main_AttachFlexioClock
    \/ main_BOARD_InitPins
    \/ main_BOARD_InitBootClocks
    \/ main_BOARD_InitDebugConsole
    \/ main_BOARD_InitBootPeripherals
    \/ main_Loop

SpecMain == MainInit /\ [][MainNext]_vars

(***************************************************************************)
(* Properties.  The frequency range, the period and the cycle counts are   *)
(* written out here from the statements checked, not taken from the        *)
(* operators above.                                                        *)
(***************************************************************************)
InPwmInit == args.op = "flexio_pwm_init"
InSetIdle == args.op = "FLEXIO_SetPwmOutputToIdle"

\* clockFreq/512 < freq_Hz < clockFreq/2, the quotients as the macros take them.
ArgFreqValid ==
    /\ args.freq_Hz > clockFreq \div 512
    /\ args.freq_Hz < clockFreq \div 2

\* round-half-up(clockFreq / freq_Hz)
ArgPeriodRounded == ((2 * clockFreq) + args.freq_Hz) \div (2 * args.freq_Hz)
\* (clockFreq * 2 / freq_Hz + 1) / 2 in integer division
ArgPeriod == (((clockFreq * 2) \div args.freq_Hz) + 1) \div 2
\* period * duty / 100, truncated
ArgHighCycles == (ArgPeriod * args.duty) \div 100
\* round(period * duty / 100)
ArgHighCyclesRounded == ((ArgPeriodRounded * args.duty) + 50) \div 100

\* C1: for a valid frequency and a duty in 1..99, flexio_pwm_init writes timer
\* mode dual-8-bit-PWM and a compare value whose low byte is
\* highCycles = round(period * duty / 100) and whose upper part (compare >> 8)
\* is lowCycles = period - highCycles - 2, period = round-half-up(clock / freq).
C1_CompareDecodesRounded ==
    (pc = "pwm_cache" /\ InPwmInit /\ ArgFreqValid /\ args.duty \in 1..99) =>
        /\ fxioTimerConfig.timerMode = kFLEXIO_TimerModeDual8BitPWM
        /\ TIMCTL[DEMO_FLEXIO_TIMER_CH].timerMode = kFLEXIO_TimerModeDual8BitPWM
        /\ fxioTimerConfig.timerCompare.lo % 256 = ArgHighCyclesRounded
        /\ Shr8W(fxioTimerConfig.timerCompare) =
              [hi |-> 0, lo |-> ArgPeriodRounded - ArgHighCyclesRounded - 2]

C3_ConstantLevels ==
    (pc = "pwm_cache" /\ InPwmInit /\ ArgFreqValid /\ args.duty \in {0, 100}) =>
        /\ fxioTimerConfig.timerMode = kFLEXIO_TimerModeDisabled
        /\ TIMCTL[DEMO_FLEXIO_TIMER_CH].timerMode = kFLEXIO_TimerModeDisabled
        /\ fxioTimerConfig.pinPolarity =
              (IF args.duty = 0 THEN kFLEXIO_PinActiveHigh ELSE kFLEXIO_PinActiveLow)
        /\ TIMCTL[DEMO_FLEXIO_TIMER_CH].pinPolarity = fxioTimerConfig.pinPolarity

C3_Witness ==
    /\ pc = "pwm_cache" /\ InPwmInit /\ ArgFreqValid /\ args.duty = 100
    /\ TIMCTL[DEMO_FLEXIO_TIMER_CH] = [timerMode   |-> kFLEXIO_TimerModeDisabled,
                                       pinPolarity |-> kFLEXIO_PinActiveLow]

\* A step of a call with a valid frequency and duty > 100.
C4_InvalidDutyStep ==
    (args'.op = "flexio_pwm_init" /\ args'.duty > 100
        /\ args'.freq_Hz > clockFreq \div 512 /\ args'.freq_Hz < clockFreq \div 2) =>
        /\ regs' = regs
        /\ pc' \in {"pwm_assert", "pwm_compose", "returned"}
        /\ (pc' = "returned" => ret' = "kStatus_Fail")

\* C4: a call with a valid frequency and duty > 100 returns a failure status
\* and changes nothing: no step of it changes a timer control register, a
\* compare register or a duty cycle cache entry, whatever came before.
C4_InvalidDutyFails == [][C4_InvalidDutyStep]_vars

C4_Witness ==
    /\ pc = "returned" /\ InPwmInit /\ ArgFreqValid /\ args.duty = 101
    /\ ret = "kStatus_Fail"
    /\ s_flexioGetPwmDutyCycle[DEMO_FLEXIO_TIMER_CH] = 50
    /\ TIMCTL[DEMO_FLEXIO_TIMER_CH].timerMode = kFLEXIO_TimerModeDual8BitPWM

\* C5: main, after board bring-up, calls flexio_pwm_init once with the demo
\* frequency (100 kHz) and only then idles: whenever main is in its idle loop,
\* the timer channel has been programmed by flexio_pwm_init at 100 kHz.
C5_MainProgramsTimer ==
    (pc = "main_loop") =>
        /\ programmed[DEMO_FLEXIO_TIMER_CH].by = "flexio_pwm_init"
        /\ programmed[DEMO_FLEXIO_TIMER_CH].freq_Hz = DEMO_FLEXIO_FREQUENCY

\* The step on which PWM_GetPwmOutputState returns.
C6_ProbeStep ==
    (pc = "probe" /\ pc' = "returned") =>
        /\ ret' = (IF ((PIN \div (2 ^ args.channel)) % 2) /= TIMCTL[args.timerChannel].pinPolarity
                   THEN "kFLEXIO_PwmHigh" ELSE "kFLEXIO_PwmLow")
        /\ regs' = regs
        /\ PIN' = PIN

\* C6: PWM_GetPwmOutputState returns High exactly when the PIN bit of the pin
\* channel and the pin polarity bit of the timer channel differ, Low when they
\* are equal, and changes no register and no cache entry.
C6_ProbeIsBitXor == [][C6_ProbeStep]_vars

\* The states and the steps of FLEXIO_SetPwmOutputToIdle.
C7_IdleState ==
    /\ (pc \in {"idle_write", "idle_cache"} \/ (pc = "returned" /\ InSetIdle)) =>
          TIMCMP[args.timerChannel] = 0
    /\ (pc = "idle_cache" \/ (pc = "returned" /\ InSetIdle)) =>
          TIMCTL[args.timerChannel] =
             [timerMode   |-> kFLEXIO_TimerModeDisabled,
              pinPolarity |-> IF args.idleStatus THEN kFLEXIO_PinActiveLow
                                                 ELSE kFLEXIO_PinActiveHigh]
    /\ (pc = "returned" /\ InSetIdle) =>
          s_flexioGetPwmDutyCycle[args.timerChannel] = 0

C7_IdleStep ==
    /\ (pc = "idle_clear" /\ pc' /= "idle_clear") =>
          /\ TIMCMP'[args.timerChannel] = 0
          /\ TIMCTL' = TIMCTL
    /\ (TIMCTL' /= TIMCTL /\ InSetIdle) => TIMCMP[args.timerChannel] = 0

\* C7: FLEXIO_SetPwmOutputToIdle zeroes the channel's compare register before
\* it writes the configuration (timer mode disabled, polarity active-low if
\* idleStatus, else active-high), so the compare register is zero once the new
\* polarity is in place; on return compare is 0, the mode is disabled and the
\* channel's duty cycle cache entry is 0.
C7_IdleClearsCompareFirst == [](C7_IdleState) /\ [][C7_IdleStep]_vars

\* The compare register already cleared while the channel still has the PWM
\* configuration of an earlier flexio_pwm_init.
C7_Witness ==
    /\ pc = "idle_write" /\ InSetIdle /\ args.idleStatus
    /\ args.timerChannel = DEMO_FLEXIO_TIMER_CH
    /\ TIMCMP[DEMO_FLEXIO_TIMER_CH] = 0
    /\ TIMCTL[DEMO_FLEXIO_TIMER_CH].timerMode = kFLEXIO_TimerModeDual8BitPWM
    /\ s_flexioGetPwmDutyCycle[DEMO_FLEXIO_TIMER_CH] = 50

\* The assertion of flexio_pwm_init: where it stops, and its step.
C8_HaltState ==
    (pc = "assert_halt") => (assertEnabled /\ InPwmInit /\ ~ArgFreqValid)

C8_AssertStep ==
    /\ (pc' = "pwm_assert") => regs' = regs
    /\ (pc = "pwm_assert" /\ pc' /= "pwm_assert" /\ assertEnabled) =>
          /\ pc' = (IF ArgFreqValid THEN "pwm_compose" ELSE "assert_halt")
          /\ regs' = regs
    /\ (pc = "assert_halt") => (pc' = "assert_halt" /\ regs' = regs)

C9_PackedValuesFit ==
    (pc = "pwm_write" /\ InPwmInit /\ ArgFreqValid /\ args.duty \in 1..99) =>
        /\ ArgHighCycles \in 0..255
        /\ (ArgPeriod - ArgHighCycles - 2) \in 0..255
        /\ fxioTimerConfig.timerCompare.hi = 0
        /\ fxioTimerConfig.timerCompare.lo % 256 = ArgHighCycles
        /\ fxioTimerConfig.timerCompare.lo \div 256 = ArgPeriod - ArgHighCycles - 2

\* The cache against the history of completed calls, and its changes.
C10_CacheState ==
    \A ch \in TimerChannels :
        /\ s_flexioGetPwmDutyCycle[ch] \in 0..100
        /\ s_flexioGetPwmDutyCycle[ch] =
              (IF programmed[ch].by = "flexio_pwm_init" THEN programmed[ch].duty ELSE 0)

C10_CacheStep ==
    \A ch \in TimerChannels :
        (s_flexioGetPwmDutyCycle'[ch] /= s_flexioGetPwmDutyCycle[ch]) =>
            \/ (InPwmInit /\ ch = DEMO_FLEXIO_TIMER_CH)
            \/ (InSetIdle /\ ch = args.timerChannel)

\* C10: after any sequence of flexio_pwm_init and FLEXIO_SetPwmOutputToIdle
\* calls from the all-zero cache, every cache entry is in 0..100; a channel's
\* entry is the duty of the latest successful flexio_pwm_init on it when no
\* FLEXIO_SetPwmOutputToIdle on it came later, and 0 otherwise; a call changes
\* at most the entry of the channel it targets.
C10_CacheTracksLastCall == [](C10_CacheState) /\ [][C10_CacheStep]_vars

C10_Witness ==
    /\ pc = "returned" /\ InSetIdle /\ args.timerChannel = 1
    /\ programmed[DEMO_FLEXIO_TIMER_CH].by = "flexio_pwm_init"
    /\ s_flexioGetPwmDutyCycle[DEMO_FLEXIO_TIMER_CH] = 99
    /\ programmed[1].by = "FLEXIO_SetPwmOutputToIdle"
    /\ s_flexioGetPwmDutyCycle[1] = 0

====
